---- MODULE Spec2Model ----
(***************************************************************************)
(* Model of src/app.js: the shared selection state of the heritage-site    *)
(* explorer, its event handlers, the playback timer, the site filter and   *)
(* the aggregations that every render pass recomputes.                     *)
(*                                                                         *)
(* JavaScript values are modelled as follows.                              *)
(*   - a string is a TLA+ string; the characters a string is made of are   *)
(*     given by Chars (text operations work on character sequences);       *)
(*   - undefined is Undefined, null (for an object slot) is Null;          *)
(*   - an array is a sequence, a Set is a set, a Map is a sequence of      *)
(*     [key, value] entries in insertion order.                            *)
(***************************************************************************)
EXTENDS Integers, Sequences, FiniteSets, TLC

VARIABLES
    rawSites,       \* the array d3.json delivers to init (empty once consumed)
    sites,          \* let sites: the normalised site array (sorted by year)
    yearExtent,     \* let yearExtent: <<yearMin, yearMax>>
    state,          \* const state: the selection state
    playTimer,      \* let playTimer: id returned by the last setInterval (0: unset)
    timers,         \* ids of the intervals the event loop currently runs
    nextTimerId,    \* the id the next setInterval call returns
    slider,         \* the #yearSlider element: [min, max, value]
    currentFiltered,\* let currentFiltered: result of the last filter pass
    stackData,      \* yearRecords of the last prepareStackData call
    hierarchyData,  \* tree of the last buildHierarchy call
    dangerSeries,   \* series the danger lines draw (last buildDangerSeries call)
    passes,         \* render() calls made by the last event handler
    lastEvent       \* kind of the event handled last (history variable)

vars == <<rawSites, sites, yearExtent, state, playTimer, timers, nextTimerId, slider,
          currentFiltered, stackData, hierarchyData, dangerSeries, passes,
          lastEvent>>

----------------------------------------------------------------------------
(* Bounds of the model. *)

\* setInterval calls explored (the play button is pressed to start at most
\* this many times).
MaxStarts == 2

\* Longest array of raw records normalised.
MaxRaw == 3

\* How far beyond the slider's ends a user may try to drag it.
Overshoot == 1

----------------------------------------------------------------------------
(* JavaScript values. *)

Undefined == "undefined"

Null == [null |-> TRUE]

\* ToBoolean of a string-or-undefined value.
Truthy(x) == x # Undefined /\ x # ""

\* The characters of the strings that occur in the model.
Chars(s) ==
    CASE s = "Ab" -> <<"A", "b">>
      [] s = "Ba" -> <<"B", "a">>
      [] s = "bq" -> <<"b", "q">>
      [] s = "P"  -> <<"P">>
      [] s = "Q"  -> <<"Q">>
      [] s = "1980" -> <<"1", "9", "8", "0">>
      [] s = "1982" -> <<"1", "9", "8", "2">>
      [] s = "19815" -> <<"1", "9", "8", "1", "5">>
      [] s = "0000" -> <<"0", "0", "0", "0">>
      [] s = "c.1980" -> <<"c", ".", "1", "9", "8", "0">>
      [] s = "n/a" -> <<"n", "/", "a">>
      [] s = "10" -> <<"1", "0">>
      [] OTHER    -> <<>>

\* String.prototype.toLowerCase, one character.
LowerChar(c) ==
    CASE c = "A" -> "a"
      [] c = "B" -> "b"
      [] c = "P" -> "p"
      [] c = "Q" -> "q"
      [] OTHER   -> c

toLowerCase(t) == [i \in 1..Len(t) |-> LowerChar(t[i])]

\* String.prototype.trim: strip the leading and trailing blanks.
RECURSIVE trimStart(_)
trimStart(t) ==
    IF t # <<>> /\ Head(t) = " " THEN trimStart(Tail(t)) ELSE t

RECURSIVE trimEnd(_)
trimEnd(t) ==
    IF t # <<>> /\ t[Len(t)] = " " THEN trimEnd(SubSeq(t, 1, Len(t) - 1)) ELSE t

trim(t) == trimEnd(trimStart(t))

\* String.prototype.includes.
includes(hay, needle) ==
    \E i \in 0..(Len(hay) - Len(needle)) :
        SubSeq(hay, i + 1, i + Len(needle)) = needle

\* Array.prototype.join(', ') over strings, as characters.
RECURSIVE joinComma(_)
joinComma(names) ==
    IF names = <<>> THEN <<>>
    ELSE IF Len(names) = 1 THEN Chars(names[1])
    ELSE Chars(names[1]) \o <<",", " ">> \o joinComma(Tail(names))

\* Array.prototype.includes / some over an array.
arrayIncludes(arr, x) == \E i \in 1..Len(arr) : arr[i] = x

RECURSIVE SumSeq(_)
SumSeq(s) == IF s = <<>> THEN 0 ELSE Head(s) + SumSeq(Tail(s))

----------------------------------------------------------------------------
(* The data set: what init() leaves in `sites` after formatSite, the       *)
(* finite-coordinate filter and the sort by year.                          *)

categoryDomain == <<"Cultural", "Natural", "Mixed", "Other">>

Site(id, name, region, year, category, criteria, countries, danger, events) ==
    [id |-> id, name |-> name, region |-> region, year |-> year,
     category |-> category, criteria |-> criteria, countries |-> countries,
     statesText |-> joinComma(countries), danger |-> danger,
     dangerEvents |-> events]

SitePool ==
    << Site(1, "Ab", "R1", 1980, "Cultural", <<"i">>, <<"P">>, FALSE, <<>>),
       Site(2, "Ba", "R1", 1981, "Natural", <<"vii", "i">>, <<"P", "Q">>, TRUE,
            << [type |-> "Y", year |-> 1982], [type |-> "R", year |-> 1981] >>),
       Site(3, "bq", "R2", 1981, "Natural", <<>>, <<"Q", "P">>, TRUE,
            << [type |-> "P", year |-> 1981] >>),
       Site(4, "Ab", "R2", 1982, "Mixed", <<"vii">>, <<"Q">>, FALSE,
            << [type |-> "Y", year |-> 1981] >>) >>

\* The sub-array of the pool at the given positions (order kept, so still
\* sorted by year).
Pick(ids) == SelectSeq(SitePool, LAMBDA s : s.id \in ids)

\* d3.extent(sites, d => d.year) of a non-empty array.
extent(ss) ==
    << CHOOSE y \in {ss[i].year : i \in 1..Len(ss)} :
            \A j \in 1..Len(ss) : y <= ss[j].year,
       CHOOSE y \in {ss[i].year : i \in 1..Len(ss)} :
            \A j \in 1..Len(ss) : y >= ss[j].year >>

\* Array.from(new Set(sites.map(d => d.region))).sort(): lexicographic order
\* is the order of RegionOrder.
RegionOrder == <<"R1", "R2">>

regionDomain(ss) ==
    SelectSeq(RegionOrder, LAMBDA r : \E i \in 1..Len(ss) : ss[i].region = r)

----------------------------------------------------------------------------
(* Filter engine: getFilteredSites. *)

\* sitePasses with the AND mode answering like the OR mode.
sitePassesAnyCriterion(site, st) ==
    IF site.year > st.year THEN FALSE
    ELSE IF st.dangerOnly /\ ~site.danger THEN FALSE
    ELSE IF st.searchTerm # <<>>
            /\ ~includes(toLowerCase(Chars(site.name) \o <<" ">> \o site.statesText),
                         st.searchTerm)
         THEN FALSE
    ELSE IF Cardinality(st.selectedStandards) > 0
            /\ ~(\E i \in 1..Len(site.criteria) :
                    site.criteria[i] \in st.selectedStandards)
         THEN FALSE
    ELSE IF st.sunburstSelection # Null
            /\ (\/ (Truthy(st.sunburstSelection.region)
                    /\ site.region # st.sunburstSelection.region)
                \/ (Truthy(st.sunburstSelection.country)
                    /\ ~arrayIncludes(site.countries, st.sunburstSelection.country))
                \/ (Truthy(st.sunburstSelection.category)
                    /\ site.category # st.sunburstSelection.category))
         THEN FALSE
    ELSE TRUE

\* The callback of sites.filter: one early return per filter dimension.
sitePasses(site, st) ==
    IF site.year > st.year THEN FALSE
    ELSE IF st.dangerOnly /\ ~site.danger THEN FALSE
    ELSE IF st.searchTerm # <<>>
            /\ ~includes(toLowerCase(Chars(site.name) \o <<" ">> \o site.statesText),
                         st.searchTerm)
         THEN FALSE
    ELSE IF Cardinality(st.selectedStandards) > 0
            /\ (IF st.standardMode = "OR"
                THEN ~(\E i \in 1..Len(site.criteria) :
                            site.criteria[i] \in st.selectedStandards)
                ELSE ~(\A c \in st.selectedStandards :
                            arrayIncludes(site.criteria, c)))
         THEN FALSE
    ELSE IF st.sunburstSelection # Null
            /\ (\/ (Truthy(st.sunburstSelection.region)
                    /\ site.region # st.sunburstSelection.region)
                \/ (Truthy(st.sunburstSelection.country)
                    /\ ~arrayIncludes(site.countries, st.sunburstSelection.country))
                \/ (Truthy(st.sunburstSelection.category)
                    /\ site.category # st.sunburstSelection.category))
         THEN FALSE
    ELSE TRUE

getFilteredSites(ss, st) == SelectSeq(ss, LAMBDA site : sitePasses(site, st))

----------------------------------------------------------------------------
(* Aggregation engine: prepareStackData, buildDangerSeries, buildHierarchy. *)

\* d3.range(a, b + 1)
yearRange(ext) == [i \in 1..(ext[2] - ext[1] + 1) |-> ext[1] + i - 1]

stackKeys(ss, st) ==
    IF st.viewMode = "category" THEN categoryDomain ELSE regionDomain(ss)

groupingKey(site, st) ==
    IF st.viewMode = "category" THEN site.category ELSE site.region

\* countSites with the count assigned (= 1) instead of incremented (+= 1).
RECURSIVE countSitesAssigned(_, _, _, _)
countSitesAssigned(records, data, ext, st) ==
    IF data = <<>> THEN records
    ELSE LET site == Head(data)
         IN  IF site.year < ext[1] \/ site.year > ext[2]
             THEN countSitesAssigned(records, Tail(data), ext, st)
             ELSE countSitesAssigned(
                    [records EXCEPT
                        ![site.year - ext[1] + 1].fields[groupingKey(site, st)] = 1],
                    Tail(data), ext, st)

\* data.forEach: yearMap.get(site.year)[groupingKey] += 1, skipping a site
\* whose year has no record. yearMap maps the years of yearRange(ext) to the
\* records, so the record of year y is the one at y - ext[1] + 1.
RECURSIVE countSites(_, _, _, _)
countSites(records, data, ext, st) ==
    IF data = <<>> THEN records
    ELSE LET site == Head(data)
         IN  IF site.year < ext[1] \/ site.year > ext[2]
             THEN countSites(records, Tail(data), ext, st)
             ELSE countSites(
                    [records EXCEPT
                        ![site.year - ext[1] + 1].fields[groupingKey(site, st)] = @ + 1],
                    Tail(data), ext, st)

\* The yearRecords of prepareStackData(data): each record is
\* [year, fields (one count per key), total].
prepareStackData(data, ss, ext, st) ==
    LET keys    == stackKeys(ss, st)
        keySet  == {keys[k] : k \in 1..Len(keys)}
        range   == yearRange(ext)
        zeroed  == [i \in 1..Len(range) |->
                        [year |-> range[i], fields |-> [k \in keySet |-> 0]]]
        counted == countSites(zeroed, data, ext, st)
    IN  [i \in 1..Len(counted) |->
            [year   |-> counted[i].year,
             fields |-> counted[i].fields,
             total  |-> SumSeq([k \in 1..Len(keys) |-> counted[i].fields[keys[k]]])]]

\* Map insertion: the distinct values of `keys` in order of first
\* appearance (d3.rollup groups into an insertion-ordered Map).
RECURSIVE groupKeys(_, _)
groupKeys(keys, seen) ==
    IF keys = <<>> THEN seen
    ELSE groupKeys(Tail(keys),
                   IF arrayIncludes(seen, Head(keys)) THEN seen
                   ELSE Append(seen, Head(keys)))

\* flatMapCountries with one row per site (its first country only).
RECURSIVE flatMapFirstCountry(_)
flatMapFirstCountry(data) ==
    IF data = <<>> THEN <<>>
    ELSE LET site == Head(data)
         IN  << [region |-> site.region, category |-> site.category,
                 country |-> site.countries[1], id |-> site.id] >>
             \o flatMapFirstCountry(Tail(data))

\* data.flatMap(site => site.countries.map(country => ({...site, country})))
RECURSIVE flatMapCountries(_)
flatMapCountries(data) ==
    IF data = <<>> THEN <<>>
    ELSE LET site == Head(data)
         IN  [j \in 1..Len(site.countries) |->
                 [region |-> site.region, category |-> site.category,
                  country |-> site.countries[j], id |-> site.id]]
             \o flatMapCountries(Tail(data))

\* A Map value and a number value, told apart as `instanceof Map` does.
MapValue(entries) == [isMap |-> TRUE, entries |-> entries]
NumValue(n) == [isMap |-> FALSE, num |-> n]

\* d3.rollup(rows, leaves => leaves.length, site => site.category)
rollupCategory(rows) ==
    LET ks == groupKeys([i \in 1..Len(rows) |-> rows[i].category], <<>>)
    IN  MapValue([k \in 1..Len(ks) |->
            [key   |-> ks[k],
             value |-> NumValue(Len(SelectSeq(rows, LAMBDA r : r.category = ks[k])))]])

\* d3.rollup(rows, rollupCategory, site => site.region, site => site.country)
rollupNested(rows) ==
    LET rs == groupKeys([i \in 1..Len(rows) |-> rows[i].region], <<>>)
    IN  MapValue([a \in 1..Len(rs) |->
            LET inRegion == SelectSeq(rows, LAMBDA r : r.region = rs[a])
                cs       == groupKeys([i \in 1..Len(inRegion) |-> inRegion[i].country], <<>>)
            IN  [key   |-> rs[a],
                 value |-> MapValue([b \in 1..Len(cs) |->
                    [key   |-> cs[b],
                     value |-> rollupCategory(
                        SelectSeq(inRegion, LAMBDA r : r.country = cs[b]))]])]])

RECURSIVE rollupToChildren(_)
rollupToChildren(map) ==
    IF ~map.isMap THEN <<>>
    ELSE [e \in 1..Len(map.entries) |->
            IF map.entries[e].value.isMap
            THEN [name     |-> map.entries[e].key,
                  children |-> rollupToChildren(map.entries[e].value)]
            ELSE [name  |-> map.entries[e].key,
                  value |-> map.entries[e].value.num]]

buildHierarchy(data) ==
    [name |-> "World", children |-> rollupToChildren(rollupNested(flatMapCountries(data)))]

----------------------------------------------------------------------------
(* Danger-event series: buildDangerSeries. A point is [year, value]; value *)
(* is <<n>> for the number n and <<>> for null.                            *)

\* value += 1 (null + 1 is 1 in JavaScript).
increment(value) == IF value = <<>> THEN <<1>> ELSE <<value[1] + 1>>

bump(series, idx) == [series EXCEPT ![idx].value = increment(@)]

\* buildDangerSeries without the `evt.year > state.year` test.
RECURSIVE addEventsPastCursor(_, _, _, _)
addEventsPastCursor(series, events, ext, st) ==
    IF events = <<>> THEN series
    ELSE LET evt == Head(events)
         IN  IF evt.year < ext[1] \/ evt.year > ext[2]
             THEN addEventsPastCursor(series, Tail(events), ext, st)
             ELSE LET idx == evt.year - ext[1] + 1
                  IN  addEventsPastCursor(
                        [Y |-> IF evt.type = "Y" THEN bump(series.Y, idx) ELSE series.Y,
                         R |-> IF evt.type = "R" THEN bump(series.R, idx) ELSE series.R],
                        Tail(events), ext, st)

\* site.dangerEvents.forEach: skip an event whose year has no point or lies
\* beyond the cursor, else add one to the point of its type (Y or R). The
\* point of year y is the one at y - ext[1] + 1 (yearIndex).
RECURSIVE addEvents(_, _, _, _)
addEvents(series, events, ext, st) ==
    IF events = <<>> THEN series
    ELSE LET evt == Head(events)
         IN  IF evt.year < ext[1] \/ evt.year > ext[2] \/ evt.year > st.year
             THEN addEvents(series, Tail(events), ext, st)
             ELSE LET idx == evt.year - ext[1] + 1
                  IN  addEvents(
                        [Y |-> IF evt.type = "Y" THEN bump(series.Y, idx) ELSE series.Y,
                         R |-> IF evt.type = "R" THEN bump(series.R, idx) ELSE series.R],
                        Tail(events), ext, st)

\* data.forEach(site => site.dangerEvents.forEach(...))
RECURSIVE addSites(_, _, _, _)
addSites(series, data, ext, st) ==
    IF data = <<>> THEN series
    ELSE addSites(addEvents(series, Head(data).dangerEvents, ext, st),
                  Tail(data), ext, st)

buildDangerSeries(data, ext, st) ==
    LET range == yearRange(ext)
        base  == [i \in 1..Len(range) |->
                    [year  |-> range[i],
                     value |-> IF range[i] <= st.year THEN <<0>> ELSE <<>>]]
    IN  addSites([Y |-> base, R |-> base], data, ext, st)

\* What the danger lines show when they are hidden (display: none).
hiddenSeries == [Y |-> <<>>, R |-> <<>>]

\* updateTimeline: the series is rebuilt only while showDangerEvents is set.
updateDangerLines(data, ext, st) ==
    IF st.showDangerEvents THEN buildDangerSeries(data, ext, st) ELSE hiddenSeries

----------------------------------------------------------------------------
(* render(): one full recomputation pass over the state `st`. *)

render(st) ==
    /\ currentFiltered' = getFilteredSites(sites, st)
    /\ stackData' = prepareStackData(currentFiltered', sites, yearExtent, st)
    /\ hierarchyData' = buildHierarchy(currentFiltered')
    /\ dangerSeries' = updateDangerLines(currentFiltered', yearExtent, st)
    /\ passes' = 1

\* A handler that does not call render().
noRender ==
    /\ UNCHANGED <<currentFiltered, stackData, hierarchyData, dangerSeries>>
    /\ passes' = 0

Event(kind, arg) == [kind |-> kind, arg |-> arg]

----------------------------------------------------------------------------
(* The year slider element. *)

\* The value an <input type="range"> holds after the user drags it towards
\* `v`: the element keeps its value within [min, max].
RangeInputValue(v, min, max) ==
    IF v < min THEN min ELSE IF v > max THEN max ELSE v

updateYearSlider(ext, year) ==
    [min |-> ext[1], max |-> ext[2],
     value |-> RangeInputValue(year, ext[1], ext[2])]

----------------------------------------------------------------------------
(* The records of whc001.json and their normalisation in init(). *)

\* JSON values as the loader sees them, tagged with their typeof.
Missing == [type |-> "undefined"]
JsonNull == [type |-> "null"]
Str(s) == [type |-> "string", value |-> s]
Num(n) == [type |-> "number", finite |-> TRUE, value |-> n]
Infinity == [type |-> "number", finite |-> FALSE]
Coordinates(lat, lon) == [type |-> "object", lat |-> lat, lon |-> lon]

\* a ?? b
Nullish(v) == v.type \in {"undefined", "null"}
Coalesce(a, b) == IF Nullish(a) THEN b ELSE a

\* !v
Falsy(v) ==
    \/ Nullish(v)
    \/ v.type = "string" /\ v.value = ""
    \/ v.type = "number" /\ v.finite /\ v.value = 0

Digits == {"0", "1", "2", "3", "4", "5", "6", "7", "8", "9"}

DigitValue(c) ==
    CASE c = "0" -> 0 [] c = "1" -> 1 [] c = "2" -> 2 [] c = "3" -> 3
      [] c = "4" -> 4 [] c = "5" -> 5 [] c = "6" -> 6 [] c = "7" -> 7
      [] c = "8" -> 8 [] c = "9" -> 9

DigitChar(k) ==
    CASE k = 0 -> "0" [] k = 1 -> "1" [] k = 2 -> "2" [] k = 3 -> "3"
      [] k = 4 -> "4" [] k = 5 -> "5" [] k = 6 -> "6" [] k = 7 -> "7"
      [] k = 8 -> "8" [] k = 9 -> "9"

\* Number.prototype.toString of a non-negative integer.
RECURSIVE NumberToString(_)
NumberToString(n) ==
    IF n < 10 THEN <<DigitChar(n)>>
    ELSE Append(NumberToString(n \div 10), DigitChar(n % 10))

\* String(value), as characters, of a string or a non-negative integer.
String(value) ==
    IF value.type = "string" THEN Chars(value.value)
    ELSE NumberToString(value.value)

\* The unary plus applied to four digit characters.
ToNumber(cs) ==
    DigitValue(cs[1]) * 1000 + DigitValue(cs[2]) * 100
        + DigitValue(cs[3]) * 10 + DigitValue(cs[4])

\* text.match(/\d{4}/): the leftmost four consecutive digits from position i
\* on, or <<>> when there are none.
RECURSIVE matchFourDigits(_, _)
matchFourDigits(cs, i) ==
    IF i + 3 > Len(cs) THEN <<>>
    ELSE IF \A k \in 0..3 : cs[i + k] \in Digits
         THEN SubSeq(cs, i, i + 3)
         ELSE matchFourDigits(cs, i + 1)

\* A matcher that accepts only digit runs of length exactly four.
RECURSIVE matchExactRun(_, _)
matchExactRun(cs, i) ==
    IF i + 3 > Len(cs) THEN <<>>
    ELSE IF /\ \A k \in 0..3 : cs[i + k] \in Digits
            /\ (i = 1 \/ cs[i - 1] \notin Digits)
            /\ (i + 4 > Len(cs) \/ cs[i + 4] \notin Digits)
         THEN SubSeq(cs, i, i + 3)
         ELSE matchExactRun(cs, i + 1)

\* parseYear with the exact-run matcher in place of /\d{4}/.
parseYearExactRun(value) ==
    IF Falsy(value) THEN JsonNull
    ELSE LET match == matchExactRun(String(value), 1)
         IN  IF match # <<>> THEN Num(ToNumber(match)) ELSE JsonNull

parseYear(value) ==
    IF Falsy(value) THEN JsonNull
    ELSE LET match == matchFourDigits(String(value), 1)
         IN  IF match # <<>> THEN Num(ToNumber(match)) ELSE JsonNull

\* d.coordinates?.lat and d.coordinates?.lon
OptionalField(obj, field) == IF Nullish(obj) THEN Missing ELSE obj[field]

\* formatSite, restricted to the fields init() filters and sorts on; the
\* other fields of the site are computed from the record alone.
formatSite(d) ==
    LET year == parseYear(Coalesce(d.date_inscribed, d.secondary_dates))
    IN  IF Falsy(year) THEN JsonNull
        ELSE [type |-> "object",
              id |-> d.uuid,
              year |-> year,
              lat |-> OptionalField(d.coordinates, "lat"),
              lon |-> OptionalField(d.coordinates, "lon")]

NumberIsFinite(v) == v.type = "number" /\ v.finite

\* The predicate of init()'s .filter call.
keepSite(d) ==
    /\ ~Falsy(d)
    /\ NumberIsFinite(d.lat)
    /\ NumberIsFinite(d.lon)
    /\ NumberIsFinite(d.year)

\* d3.ascending on two finite numbers.
ascending(a, b) == IF a < b THEN -1 ELSE IF a > b THEN 1 ELSE 0

\* One step of the stable Array.prototype.sort: d goes behind every element
\* that does not compare greater than it.
RECURSIVE insertSorted(_, _)
insertSorted(sorted, d) ==
    IF sorted = <<>> THEN <<d>>
    ELSE IF ascending(Head(sorted).year.value, d.year.value) <= 0
         THEN <<Head(sorted)>> \o insertSorted(Tail(sorted), d)
         ELSE <<d>> \o sorted

RECURSIVE sortByYear(_)
sortByYear(ds) ==
    IF ds = <<>> THEN <<>>
    ELSE insertSorted(sortByYear(SubSeq(ds, 1, Len(ds) - 1)), ds[Len(ds)])

\* rawSites.map(formatSite).filter(...).sort(...)
normalizeSites(raw) ==
    sortByYear(SelectSeq([i \in 1..Len(raw) |-> formatSite(raw[i])], keepSite))

----------------------------------------------------------------------------
(* init(): the state once the data is loaded and the first render is done. *)

initialState(ext) ==
    [year |-> ext[2],
     viewMode |-> "category",
     selectedStandards |-> {},
     standardMode |-> "OR",
     searchTerm |-> <<>>,
     dangerOnly |-> FALSE,
     showDangerEvents |-> TRUE,
     brushRange |-> <<>>,
     playing |-> FALSE,
     sunburstSelection |-> Null]

\* The data sets the application is started on.
Datasets == { Pick({1, 4}) }

Init ==
    /\ rawSites = <<>>
    /\ sites \in Datasets
    /\ yearExtent = extent(sites)
    /\ state = initialState(yearExtent)
    /\ playTimer = 0
    /\ timers = {}
    /\ nextTimerId = 1
    /\ slider = updateYearSlider(yearExtent, state.year)
    /\ currentFiltered = getFilteredSites(sites, state)
    /\ stackData = prepareStackData(currentFiltered, sites, yearExtent, state)
    /\ hierarchyData = buildHierarchy(currentFiltered)
    /\ dangerSeries = updateDangerLines(currentFiltered, yearExtent, state)
    /\ passes = 1
    /\ lastEvent = Event("init", Undefined)

----------------------------------------------------------------------------
(* Event handlers of setupControlListeners and setupCriteriaControls. *)

fixed == <<rawSites, sites, yearExtent>>
timerVars == <<playTimer, timers, nextTimerId>>

\* #yearSlider 'input': the user drags the slider towards v.
YearSliderInput(v) ==
    /\ slider' = [slider EXCEPT !.value = RangeInputValue(v, slider.min, slider.max)]
    /\ state' = [state EXCEPT !.year = slider'.value]
    /\ render(state')
    /\ lastEvent' = Event("yearSlider", v)
    /\ UNCHANGED <<fixed, timerVars>>

\* #viewMode 'change'
ViewModeChange(mode) ==
    /\ state' = [state EXCEPT !.viewMode = mode]
    /\ render(state')
    /\ lastEvent' = Event("control", Undefined)
    /\ UNCHANGED <<fixed, timerVars, slider>>

\* #searchInput 'input'
SearchInput(raw) ==
    /\ state' = [state EXCEPT !.searchTerm = toLowerCase(trim(raw))]
    /\ render(state')
    /\ lastEvent' = Event("control", Undefined)
    /\ UNCHANGED <<fixed, timerVars, slider>>

\* The #dangerOnly handler without its render() call.
DangerOnlyChangeNoRender(checked) ==
    /\ state' = [state EXCEPT !.dangerOnly = checked]
    /\ noRender
    /\ lastEvent' = Event("control", Undefined)
    /\ UNCHANGED <<fixed, timerVars, slider>>

\* #dangerOnly 'change'
DangerOnlyChange(checked) ==
    /\ state' = [state EXCEPT !.dangerOnly = checked]
    /\ render(state')
    /\ lastEvent' = Event("control", Undefined)
    /\ UNCHANGED <<fixed, timerVars, slider>>

\* #andDangerEvents 'change'
ShowDangerEventsChange(checked) ==
    /\ state' = [state EXCEPT !.showDangerEvents = checked]
    /\ render(state')
    /\ lastEvent' = Event("control", Undefined)
    /\ UNCHANGED <<fixed, timerVars, slider>>

\* #criteriaMode 'click'
CriteriaModeClick ==
    /\ state' = [state EXCEPT !.standardMode = IF @ = "OR" THEN "AND" ELSE "OR"]
    /\ render(state')
    /\ lastEvent' = Event("control", Undefined)
    /\ UNCHANGED <<fixed, timerVars, slider>>

\* criteria checkbox 'change'
CriterionChange(code, checked) ==
    /\ state' = [state EXCEPT !.selectedStandards =
                    IF checked THEN @ \cup {code} ELSE @ \ {code}]
    /\ render(state')
    /\ lastEvent' = Event("control", Undefined)
    /\ UNCHANGED <<fixed, timerVars, slider>>

\* breadcrumb 'click'
BreadcrumbClick ==
    /\ state' = [state EXCEPT !.sunburstSelection = Null]
    /\ render(state')
    /\ lastEvent' = Event("control", Undefined)
    /\ UNCHANGED <<fixed, timerVars, slider>>

\* timeline brush 'brush end': range is <<>> for no selection, else the
\* rounded years <<x0, x1>>; only the highlight is refreshed.
BrushEvent(range) ==
    /\ state' = [state EXCEPT !.brushRange = range]
    /\ noRender
    /\ lastEvent' = Event("control", Undefined)
    /\ UNCHANGED <<fixed, timerVars, slider>>

----------------------------------------------------------------------------
(* Playback: togglePlay and the setInterval callback. *)

\* tickYear that wraps one tick late (> instead of >=).
tickYearLateWrap(year, ext) == IF year > ext[2] THEN ext[1] ELSE year + 1

\* The body of the interval callback: the year it stores.
tickYear(year, ext) == IF year >= ext[2] THEN ext[1] ELSE year + 1

\* togglePlay without the clearInterval call.
togglePlayNoClear ==
    /\ state' = [state EXCEPT !.playing = ~@]
    /\ IF state'.playing
       THEN /\ nextTimerId <= MaxStarts
            /\ playTimer' = nextTimerId
            /\ timers' = timers \cup {nextTimerId}
            /\ nextTimerId' = nextTimerId + 1
       ELSE UNCHANGED <<playTimer, timers, nextTimerId>>
    /\ noRender
    /\ lastEvent' = Event("playToggle", Undefined)
    /\ UNCHANGED <<fixed, slider>>

\* #playToggle 'click' -> togglePlay()
togglePlay ==
    /\ state' = [state EXCEPT !.playing = ~@]
    /\ IF state'.playing
       THEN /\ nextTimerId <= MaxStarts
            /\ playTimer' = nextTimerId
            /\ timers' = timers \cup {nextTimerId}
            /\ nextTimerId' = nextTimerId + 1
       ELSE /\ timers' = timers \ {playTimer}
            /\ UNCHANGED <<playTimer, nextTimerId>>
    /\ noRender
    /\ lastEvent' = Event("playToggle", Undefined)
    /\ UNCHANGED <<fixed, slider>>

\* The event loop runs the callback of the live interval `id`.
Tick(id) ==
    /\ id \in timers
    /\ state' = [state EXCEPT !.year = tickYear(@, yearExtent)]
    /\ slider' = updateYearSlider(yearExtent, state'.year)
    /\ render(state')
    /\ lastEvent' = Event("tick", Undefined)
    /\ UNCHANGED <<fixed, timerVars>>

----------------------------------------------------------------------------
(* Sunburst clicks. *)

\* root.descendants().filter(d => d.depth > 0), each node as the names on
\* its path below the root: node.ancestors().reverse().slice(1).
nodePaths(root) ==
    LET regions == root.children
    IN  {<<regions[a].name>> : a \in 1..Len(regions)}
        \cup UNION {
            LET countries == regions[a].children
            IN  {<<regions[a].name, countries[b].name>> : b \in 1..Len(countries)}
                \cup UNION {
                    {<<regions[a].name, countries[b].name,
                       countries[b].children[c].name>> :
                        c \in 1..Len(countries[b].children)} :
                    b \in 1..Len(countries)} :
            a \in 1..Len(regions)}

\* ancestors[i]?.data.name
nameAt(path, i) == IF i <= Len(path) THEN path[i] ELSE Undefined

\* clickedSelection that compares the region only.
clickedSelectionSameRegion(current, path) ==
    LET selection == [region   |-> nameAt(path, 1),
                      country  |-> nameAt(path, 2),
                      category |-> nameAt(path, 3)]
        same == /\ current # Null
                /\ current.region = selection.region
    IN  IF same THEN Null ELSE selection

\* clickedSelection with the country and category indices exchanged.
clickedSelectionSwapped(current, path) ==
    LET selection == [region   |-> nameAt(path, 1),
                      country  |-> nameAt(path, 3),
                      category |-> nameAt(path, 2)]
        same == /\ current # Null
                /\ current.region = selection.region
                /\ current.country = selection.country
                /\ current.category = selection.category
    IN  IF same THEN Null ELSE selection

\* The value handleSunburstClick stores in state.sunburstSelection.
clickedSelection(current, path) ==
    LET selection == [region   |-> nameAt(path, 1),
                      country  |-> nameAt(path, 2),
                      category |-> nameAt(path, 3)]
        same == /\ current # Null
                /\ current.region = selection.region
                /\ current.country = selection.country
                /\ current.category = selection.category
    IN  IF same THEN Null ELSE selection

\* arc 'click' -> handleSunburstClick(node)
SunburstClick(path) ==
    /\ path \in nodePaths(hierarchyData)
    /\ state' = [state EXCEPT !.sunburstSelection = clickedSelection(@, path)]
    /\ render(state')
    /\ lastEvent' = Event("sunburstClick", path)
    /\ UNCHANGED <<fixed, timerVars, slider>>

----------------------------------------------------------------------------
(* The application: any event at any time. *)

SliderTargets == (yearExtent[1] - Overshoot)..(yearExtent[2] + Overshoot)

ViewModes == {"category", "region"}

\* What the user types into the search box.
SearchTexts == { <<>>, <<" ", "Q", " ">> }

CheckboxCodes == {"i"}

BrushRanges == { <<>>, <<yearExtent[1], yearExtent[2]>> }

Next ==
    \/ \E v \in SliderTargets : YearSliderInput(v)
    \/ \E m \in ViewModes : ViewModeChange(m)
    \/ \E raw \in SearchTexts : SearchInput(raw)
    \/ \E b \in BOOLEAN : DangerOnlyChange(b)
    \/ \E b \in BOOLEAN : ShowDangerEventsChange(b)
    \/ CriteriaModeClick
    \/ \E code \in CheckboxCodes, b \in BOOLEAN : CriterionChange(code, b)
    \/ BreadcrumbClick
    \/ \E range \in BrushRanges : BrushEvent(range)
    \/ togglePlay
    \/ \E id \in timers : Tick(id)
    \/ \E path \in nodePaths(hierarchyData) : SunburstClick(path)

Spec == Init /\ [][Next]_vars

----------------------------------------------------------------------------
(* The filter and the aggregations as functions: one render pass over an   *)
(* arbitrary data set and an arbitrary selection state, including drill    *)
(* selections no click can produce.                                        *)

FilterDatasets == { Pick(ids) : ids \in (SUBSET {1, 2, 3, 4}) \ {{}} }

DrillSelections ==
    {Null} \cup [region   : {Undefined, "R1", "R2"},
                 country  : {Undefined, "P", "Q"},
                 category : {Undefined, "Cultural", "Natural"}]

\* Search terms as the search handler stores them (trimmed, lower case).
StoredSearchTerms == { <<>>, <<"p">>, <<"a", " ", "p">>, <<"p", ",", " ", "q">> }

FilterStates(ext) ==
    [year : ext[1]..ext[2],
     viewMode : ViewModes,
     selectedStandards : SUBSET {"i", "vii"},
     standardMode : {"OR", "AND"},
     searchTerm : StoredSearchTerms,
     dangerOnly : BOOLEAN,
     showDangerEvents : {TRUE},
     brushRange : {<<>>},
     playing : {FALSE},
     sunburstSelection : DrillSelections]

InitFilter ==
    /\ rawSites = <<>>
    /\ sites \in FilterDatasets
    /\ yearExtent = extent(sites)
    /\ state \in FilterStates(yearExtent)
    /\ playTimer = 0
    /\ timers = {}
    /\ nextTimerId = 1
    /\ slider = updateYearSlider(yearExtent, state.year)
    /\ currentFiltered = <<>>
    /\ stackData = <<>>
    /\ hierarchyData = [name |-> "World", children |-> <<>>]
    /\ dangerSeries = hiddenSeries
    /\ passes = 0
    /\ lastEvent = Event("load", Undefined)

RenderPass ==
    /\ lastEvent.kind = "load"
    /\ render(state)
    /\ lastEvent' = Event("render", Undefined)
    /\ UNCHANGED <<fixed, state, timerVars, slider>>

FilterSpec == InitFilter /\ [][RenderPass]_vars

----------------------------------------------------------------------------
(* The normalisation on its own: the state before init() and the step of
   init() that fills sites. *)

OkCoordinates == Coordinates(Num(10), Num(20))

RawRecord(date, secondary, coordinates) ==
    [uuid |-> 0, date_inscribed |-> date, secondary_dates |-> secondary,
     coordinates |-> coordinates]

RawPool ==
    { RawRecord(Str("1982"), Missing, OkCoordinates),
      RawRecord(Str("19815"), Missing, OkCoordinates),
      RawRecord(Str("0000"), Str("1980"), OkCoordinates),
      RawRecord(JsonNull, Str("c.1980"), OkCoordinates),
      RawRecord(Str("n/a"), Str("1980"), OkCoordinates),
      RawRecord(Str("1980"), Missing, JsonNull),
      RawRecord(Str("1980"), Missing, Coordinates(Str("10"), Num(20))),
      RawRecord(Str("1980"), Missing, Coordinates(Num(10), Infinity)),
      RawRecord(Num(1979), Missing, OkCoordinates),
      RawRecord(Str(""), Str("1980"), OkCoordinates) }

\* Arrays of at most MaxRaw records; the uuid of a record is its position.
RawInputs ==
    UNION { { [i \in 1..n |-> [rs[i] EXCEPT !.uuid = i]] :
                rs \in [1..n -> RawPool] } : n \in 0..MaxRaw }

InitLoad ==
    /\ rawSites \in RawInputs
    /\ sites = <<>>
    /\ yearExtent = <<1978, 2024>>
    /\ state = [initialState(yearExtent) EXCEPT !.year = Null]
    /\ playTimer = 0
    /\ timers = {}
    /\ nextTimerId = 1
    /\ slider = updateYearSlider(yearExtent, yearExtent[2])
    /\ currentFiltered = <<>>
    /\ stackData = <<>>
    /\ hierarchyData = [name |-> "World", children |-> <<>>]
    /\ dangerSeries = hiddenSeries
    /\ passes = 0
    /\ lastEvent = Event("fetch", Undefined)

LoadSites ==
    /\ lastEvent.kind = "fetch"
    /\ sites' = normalizeSites(rawSites)
    /\ lastEvent' = Event("sites", Undefined)
    /\ UNCHANGED <<rawSites, yearExtent, state, timerVars, slider,
                   currentFiltered, stackData, hierarchyData, dangerSeries,
                   passes>>

LoadSpec == InitLoad /\ [][LoadSites]_vars

----------------------------------------------------------------------------
(* Claims about the filter (checked under FilterSpec). *)

rendered == lastEvent.kind = "render"

\* A drill selection that is unset or a prefix path region[/country[/category]].
WellFormed(sel) ==
    sel = Null
    \/ (/\ sel.region # Undefined
        /\ (sel.category # Undefined => sel.country # Undefined))

\* The drill selection with every field below an unset level removed.
Narrowed(sel) ==
    IF sel = Null THEN Null
    ELSE [region   |-> sel.region,
          country  |-> IF sel.region = Undefined THEN Undefined ELSE sel.country,
          category |-> IF sel.region = Undefined \/ sel.country = Undefined
                       THEN Undefined ELSE sel.category]

SearchText(site) ==
    LET joined[n \in 0..Len(site.countries)] ==
            IF n = 0 THEN <<>>
            ELSE IF n = 1 THEN Chars(site.countries[1])
            ELSE joined[n - 1] \o <<",", " ">> \o Chars(site.countries[n])
        text == Chars(site.name) \o <<" ">> \o joined[Len(site.countries)]
    IN  [i \in 1..Len(text) |-> LowerChar(text[i])]

IsSubstring(needle, text) ==
    \E a \in 1..(Len(text) + 1) :
        /\ a + Len(needle) - 1 <= Len(text)
        /\ \A k \in 1..Len(needle) : text[a + k - 1] = needle[k]

CriteriaOf(site) == {site.criteria[i] : i \in 1..Len(site.criteria)}

\* The predicate of the filter contract, one conjunct per dimension.
Passes(site, st) ==
    /\ site.year <= st.year
    /\ st.dangerOnly => site.danger
    /\ st.searchTerm # <<>> => IsSubstring(st.searchTerm, SearchText(site))
    /\ st.selectedStandards # {} =>
          IF st.standardMode = "OR"
          THEN CriteriaOf(site) \cap st.selectedStandards # {}
          ELSE st.selectedStandards \subseteq CriteriaOf(site)
    /\ st.sunburstSelection # Null =>
          /\ st.sunburstSelection.region # Undefined =>
                site.region = st.sunburstSelection.region
          /\ st.sunburstSelection.country # Undefined =>
                \E j \in 1..Len(site.countries) :
                    site.countries[j] = st.sunburstSelection.country
          /\ st.sunburstSelection.category # Undefined =>
                site.category = st.sunburstSelection.category

\* Position of a site (by id) in the input array.
PositionIn(ss, site) == CHOOSE j \in 1..Len(ss) : ss[j].id = site.id

\* C8: for a well-formed drill path the filter returns exactly the sites
\* that satisfy every dimension of the predicate, in their input order.
C8_FilterIsThePredicate ==
    (rendered /\ WellFormed(state.sunburstSelection)) =>
        /\ \A i \in 1..Len(currentFiltered) :
              /\ \E j \in 1..Len(sites) : sites[j] = currentFiltered[i]
              /\ Passes(currentFiltered[i], state)
        /\ \A j \in 1..Len(sites) :
              Passes(sites[j], state) =>
                  \E i \in 1..Len(currentFiltered) : currentFiltered[i] = sites[j]
        /\ \A i, k \in 1..Len(currentFiltered) :
              i < k => PositionIn(sites, currentFiltered[i])
                            < PositionIn(sites, currentFiltered[k])

\* C8 witness: a pass where every dimension is active (AND mode over two
\* codes, a search term, danger-only, a full drill path) and exactly one of
\* four sites passes.
C8_Witness ==
    /\ rendered
    /\ Len(sites) = 4
    /\ state.standardMode = "AND"
    /\ state.selectedStandards = {"i", "vii"}
    /\ state.searchTerm = <<"a", " ", "p">>
    /\ state.dangerOnly
    /\ state.sunburstSelection = [region |-> "R1", country |-> "Q", category |-> "Natural"]
    /\ Len(currentFiltered) = 1
    /\ currentFiltered[1].id = 2

----------------------------------------------------------------------------
(* Claims about the aggregations (checked under FilterSpec). *)

RECURSIVE SumOver(_, _)
SumOver(S, f) ==
    IF S = {} THEN 0
    ELSE LET x == CHOOSE y \in S : TRUE IN f[x] + SumOver(S \ {x}, f)

GroupOf(site) == IF state.viewMode = "category" THEN site.category ELSE site.region

GroupKeys ==
    IF state.viewMode = "category"
    THEN {"Cultural", "Natural", "Mixed", "Other"}
    ELSE {sites[j].region : j \in 1..Len(sites)}

\* C9: the stacked series has one record per year of the global extent, in
\* ascending order; each group field counts the filtered sites of that year
\* and group (so a year without sites is all zero), and total is the sum of
\* the group fields.
C9_StackedSeriesShape ==
    rendered =>
        /\ Len(stackData) = yearExtent[2] - yearExtent[1] + 1
        /\ \A i \in 1..Len(stackData) :
              /\ stackData[i].year = yearExtent[1] + i - 1
              /\ DOMAIN stackData[i].fields = GroupKeys
              /\ \A g \in GroupKeys :
                    stackData[i].fields[g] =
                        Cardinality({j \in 1..Len(currentFiltered) :
                            /\ currentFiltered[j].year = stackData[i].year
                            /\ GroupOf(currentFiltered[j]) = g})
              /\ (~\E j \in 1..Len(currentFiltered) :
                        currentFiltered[j].year = stackData[i].year)
                    => \A g \in GroupKeys : stackData[i].fields[g] = 0
              /\ stackData[i].total = SumOver(GroupKeys, stackData[i].fields)

\* C9 witness: a category-mode pass over three years: one site in the first
\* year, two sites of one category in the second, none in the third.
C9_Witness ==
    /\ rendered
    /\ state.viewMode = "category"
    /\ Len(stackData) = 3
    /\ stackData[1].total = 1
    /\ stackData[2].fields["Natural"] = 2
    /\ stackData[2].total = 2
    /\ stackData[3].total = 0

\* The leaves of the tree as <<region, country, category, value>>, one per
\* position in the tree.
Leaves(root) ==
    UNION { UNION { { <<a, b, c>> : c \in 1..Len(root.children[a].children[b].children) } :
                    b \in 1..Len(root.children[a].children) } :
            a \in 1..Len(root.children) }

LeafNode(root, p) == root.children[p[1]].children[p[2]].children[p[3]]
LeafRegion(root, p) == root.children[p[1]].name
LeafCountry(root, p) == root.children[p[1]].children[p[2]].name

\* The (site, country) pairs of the filtered set: <<i, j>> is the j-th
\* country of the i-th filtered site.
SiteCountryPairs ==
    UNION { { <<i, j>> : j \in 1..Len(currentFiltered[i].countries) } :
            i \in 1..Len(currentFiltered) }

PairsOf(r, c, k) ==
    { p \in SiteCountryPairs :
        /\ currentFiltered[p[1]].region = r
        /\ currentFiltered[p[1]].countries[p[2]] = c
        /\ currentFiltered[p[1]].category = k }

\* C10: the tree is World -> region -> country -> category leaf; a leaf's
\* value is the number of (site, country) pairs of its region, country and
\* category; every such non-empty combination has exactly one leaf; and the
\* leaf values sum to the total length of the filtered sites' country lists.
C10_HierarchyCountsPairs ==
    rendered =>
        LET root == hierarchyData
            leaves == Leaves(root)
        IN  /\ root.name = "World"
            /\ \A p \in leaves :
                  /\ LeafNode(root, p).value =
                        Cardinality(PairsOf(LeafRegion(root, p), LeafCountry(root, p),
                                            LeafNode(root, p).name))
                  /\ LeafNode(root, p).value > 0
            /\ \A p, q \in leaves :
                  (/\ LeafRegion(root, p) = LeafRegion(root, q)
                   /\ LeafCountry(root, p) = LeafCountry(root, q)
                   /\ LeafNode(root, p).name = LeafNode(root, q).name) => p = q
            /\ \A a, b \in 1..Len(root.children) :
                  root.children[a].name = root.children[b].name => a = b
            /\ \A x \in SiteCountryPairs :
                  \E p \in leaves :
                      /\ LeafRegion(root, p) = currentFiltered[x[1]].region
                      /\ LeafCountry(root, p) = currentFiltered[x[1]].countries[x[2]]
                      /\ LeafNode(root, p).name = currentFiltered[x[1]].category
            /\ SumOver(leaves, [p \in leaves |-> LeafNode(root, p).value])
                  = SumSeq([i \in 1..Len(currentFiltered) |->
                                Len(currentFiltered[i].countries)])

\* C10 witness: four filtered sites, two of them listed under two
\* countries, give six (site, country) pairs spread over the leaves.
C10_Witness ==
    /\ rendered
    /\ Len(currentFiltered) = 4
    /\ Cardinality(SiteCountryPairs) = 6
    /\ Cardinality(Leaves(hierarchyData)) = 6
    /\ Len(hierarchyData.children) = 2

----------------------------------------------------------------------------
(* Claims about playback (checked under Spec). *)

yearMin == yearExtent[1]
yearMax == yearExtent[2]

\* C1: a playback tick while playing wraps the cursor year from yearMax to
\* yearMin, otherwise adds one, and changes no other selection-state field.
C1_TickAdvancesCursor ==
    [][(state.playing /\ lastEvent'.kind = "tick") =>
          /\ state'.year = IF state.year = yearMax THEN yearMin ELSE state.year + 1
          /\ state' = [state EXCEPT !.year = state'.year]]_vars

\* C1 witness: a tick has just wrapped the cursor to yearMin.
C1_Witness ==
    /\ lastEvent.kind = "tick"
    /\ state.playing
    /\ state.year = yearMin

\* C2: while playback is stopped no step is a playback tick, and the only
\* event that changes the cursor year is the user's slider input.
C2_StoppedMeansNoTick ==
    [][~state.playing =>
          /\ lastEvent'.kind # "tick"
          /\ (state'.year # state.year => lastEvent'.kind = "yearSlider")]_vars

\* C2 witness: playback was started twice and has just been stopped for the
\* second time, the cursor having moved meanwhile.
C2_Witness ==
    /\ ~state.playing
    /\ playTimer = 2
    /\ timers = {}
    /\ lastEvent.kind = "playToggle"
    /\ state.year = yearMin

OneTickSource ==
    /\ Cardinality(timers) <= 1
    /\ (timers # {} <=> state.playing)

----------------------------------------------------------------------------
(* Claims about the selection state (checked under Spec). *)

Distance(a, b) == IF a < b THEN b - a ELSE a - b

\* The year of the extent nearest to v.
NearestYear(v) ==
    CHOOSE y \in yearMin..yearMax :
        \A z \in yearMin..yearMax : Distance(y, v) <= Distance(z, v)

PathSelection(path) ==
    [region   |-> IF Len(path) >= 1 THEN path[1] ELSE Undefined,
     country  |-> IF Len(path) >= 2 THEN path[2] ELSE Undefined,
     category |-> IF Len(path) >= 3 THEN path[3] ELSE Undefined]

\* C5: clicking the path that is the current drill selection clears the
\* selection; clicking any other path makes that path the selection.
C5_ClickTogglesPath ==
    [][lastEvent'.kind = "sunburstClick" =>
          state'.sunburstSelection =
              IF state.sunburstSelection = PathSelection(lastEvent'.arg)
              THEN Null
              ELSE PathSelection(lastEvent'.arg)]_vars

\* C5 witness: a click on the selected path has cleared the selection.
C5_Witness ==
    /\ lastEvent.kind = "sunburstClick"
    /\ Len(lastEvent.arg) = 2
    /\ state.sunburstSelection = Null

\* C7: the drill selection is unset or a well-formed prefix path.
C7_DrillSelectionWellFormed == WellFormed(state.sunburstSelection)

\* C7 witness: a click on a category leaf has selected a full path.
C7_Witness ==
    /\ lastEvent.kind = "sunburstClick"
    /\ Len(lastEvent.arg) = 3
    /\ state.sunburstSelection # Null
    /\ state.sunburstSelection.category = "Mixed"

----------------------------------------------------------------------------
(* Claims about the danger-event series (checked under FilterSpec). *)

\* The danger events of type `type` and year `year` over the filtered
\* sites, as <<site position, event position>>.
EventsOf(type, year) ==
    UNION { { <<i, e>> : e \in { k \in 1..Len(currentFiltered[i].dangerEvents) :
                                    /\ currentFiltered[i].dangerEvents[k].type = type
                                    /\ currentFiltered[i].dangerEvents[k].year = year } } :
            i \in 1..Len(currentFiltered) }

SeriesIsDangerCount(series, type) ==
    /\ Len(series) = yearExtent[2] - yearExtent[1] + 1
    /\ \A i \in 1..Len(series) :
          /\ series[i].year = yearExtent[1] + i - 1
          /\ series[i].value =
                IF series[i].year <= state.year
                THEN <<Cardinality(EventsOf(type, series[i].year))>>
                ELSE <<>>

\* C11: the Y and the R series have one point per year of the extent; up to
\* the cursor year the value is the number of events of that type and that
\* exact year over the filtered sites (other type letters are not counted),
\* and beyond the cursor year it is the undefined value, not zero.
C11_DangerSeriesCounts ==
    (rendered /\ state.showDangerEvents) =>
        /\ SeriesIsDangerCount(dangerSeries.Y, "Y")
        /\ SeriesIsDangerCount(dangerSeries.R, "R")

\* C11 witness: the cursor is on the middle year; the filtered sites hold an
\* R event and an event of another letter in that year and a Y event in the
\* year after it.
C11_Witness ==
    /\ rendered
    /\ state.showDangerEvents
    /\ Len(currentFiltered) = 3
    /\ state.year = yearExtent[1] + 1
    /\ Len(dangerSeries.Y) = 3
    /\ dangerSeries.R[2].value = <<1>>
    /\ dangerSeries.Y[2].value = <<0>>
    /\ dangerSeries.Y[3].value = <<>>
    /\ \E i \in 1..3 : \E e \in 1..Len(currentFiltered[i].dangerEvents) :
          currentFiltered[i].dangerEvents[e] = [type |-> "Y", year |-> state.year + 1]

----------------------------------------------------------------------------
(* Claims about recomputation (checked under Spec). *)

\* The derived views are those of a full pass over the current state.
ViewsCurrent ==
    /\ currentFiltered = getFilteredSites(sites, state)
    /\ stackData = prepareStackData(currentFiltered, sites, yearExtent, state)
    /\ hierarchyData = buildHierarchy(currentFiltered)
    /\ dangerSeries = updateDangerLines(currentFiltered, yearExtent, state)

Changed(field) == state'[field] # state[field]

FilterFields ==
    {"year", "selectedStandards", "standardMode", "searchTerm", "dangerOnly",
     "showDangerEvents", "sunburstSelection"}

\* C12 (as claimed): every mutation of the cursor year, the criteria, the
\* criteria mode, the search term, the danger-only and show-danger-events
\* flags, the brush range or the drill selection (playback ticks included)
\* is handled with exactly one render pass, and the views are always current.
C12_EveryMutationRecomputes ==
    /\ []ViewsCurrent
    /\ [][(\E f \in FilterFields \cup {"brushRange"} : Changed(f))
              => passes' = 1]_vars

\* C12 (amended): every such mutation except a brush range change is
\* handled with exactly one render pass; a brush range change runs no render
\* pass (only the highlight is refreshed); the views are always current.
C12_MutationsButBrushRecompute ==
    /\ []ViewsCurrent
    /\ [][/\ (\E f \in FilterFields : Changed(f)) => passes' = 1
          /\ Changed("brushRange") => passes' = 0]_vars

\* C12 witness: a playback tick has moved the cursor and the pass after it
\* left fewer sites than the data set holds.
C12_Witness ==
    /\ lastEvent.kind = "tick"
    /\ passes = 1
    /\ state.year = yearExtent[1]
    /\ Len(currentFiltered) < Len(sites)
    /\ state.brushRange # <<>>

----------------------------------------------------------------------------
(* Claims about the normalisation (checked under LoadSpec). *)

loaded == lastEvent.kind = "sites"

\* The date text of a raw record, as characters.
DateText(r) ==
    LET v == IF r.date_inscribed.type \in {"undefined", "null"}
             THEN r.secondary_dates ELSE r.date_inscribed
    IN  IF v.type = "string" THEN Chars(v.value)
        ELSE IF v.type = "number" THEN NumberToString(v.value)
        ELSE <<>>

\* Positions where four consecutive digits start.
FourDigitStarts(cs) ==
    { i \in 1..(Len(cs) - 3) : \A k \in 0..3 : cs[i + k] \in Digits }

\* Positions where a maximal digit run of length exactly four starts.
ExactRunStarts(cs) ==
    { i \in FourDigitStarts(cs) :
        /\ (i = 1 \/ cs[i - 1] \notin Digits)
        /\ (i + 4 > Len(cs) \/ cs[i + 4] \notin Digits) }

Least(S) == CHOOSE i \in S : \A j \in S : i <= j

YearAt(cs, i) ==
    DigitValue(cs[i]) * 1000 + DigitValue(cs[i + 1]) * 100
        + DigitValue(cs[i + 2]) * 10 + DigitValue(cs[i + 3])

FiniteNumber(v) == v.type = "number" /\ v.finite

FiniteCoordinates(r) ==
    /\ r.coordinates.type = "object"
    /\ FiniteNumber(r.coordinates.lat)
    /\ FiniteNumber(r.coordinates.lon)

KeptIds == { sites[j].id : j \in 1..Len(sites) }

AscendingByYear ==
    \A i, j \in 1..Len(sites) :
        i < j => sites[i].year.value <= sites[j].year.value

\* C13 (as claimed): normalisation keeps a record iff its date text contains
\* a run of four digits and its latitude and longitude are finite; the year
\* is that of the first run of exactly four digits; the kept sites are in
\* ascending order of year.
C13_KeepsEveryFourDigitRun ==
    loaded =>
        /\ \A i \in 1..Len(rawSites) :
               i \in KeptIds <=>
                   /\ FourDigitStarts(DateText(rawSites[i])) # {}
                   /\ FiniteCoordinates(rawSites[i])
        /\ \A j \in 1..Len(sites) :
               LET cs == DateText(rawSites[sites[j].id])
               IN  /\ ExactRunStarts(cs) # {}
                   /\ sites[j].year = Num(YearAt(cs, Least(ExactRunStarts(cs))))
        /\ AscendingByYear

\* C13 (amended): normalisation keeps a record iff its date text contains
\* four consecutive digits, the leftmost four such digits are not 0000, and
\* its latitude and longitude are finite numbers; the year is the number
\* those leftmost four digits form; each kept record yields one site, and
\* the sites are in ascending order of year, equal years in input order.
C13_KeepsNonZeroFirstFourDigits ==
    loaded =>
        /\ \A i \in 1..Len(rawSites) :
               LET cs == DateText(rawSites[i])
               IN  i \in KeptIds <=>
                       /\ FourDigitStarts(cs) # {}
                       /\ YearAt(cs, Least(FourDigitStarts(cs))) # 0
                       /\ FiniteCoordinates(rawSites[i])
        /\ \A j \in 1..Len(sites) :
               LET cs == DateText(rawSites[sites[j].id])
               IN  sites[j].year = Num(YearAt(cs, Least(FourDigitStarts(cs))))
        /\ Cardinality(KeptIds) = Len(sites)
        /\ AscendingByYear
        /\ \A i, j \in 1..Len(sites) :
               (i < j /\ sites[i].year = sites[j].year)
                   => sites[i].id < sites[j].id

\* C13 witness: of three records the one dated "0000" was dropped, the one
\* dated "19815" was kept with year 1981 and moved in front of the 1982 one.
C13_Witness ==
    /\ loaded
    /\ Len(rawSites) = 3
    /\ rawSites[1].date_inscribed = Str("1982")
    /\ rawSites[2].date_inscribed = Str("19815")
    /\ rawSites[3].date_inscribed = Str("0000")
    /\ Len(sites) = 2
    /\ sites[1].id = 2 /\ sites[1].year = Num(1981)
    /\ sites[2].id = 1 /\ sites[2].year = Num(1982)

====
